---- MODULE Spec2Model ----
(***************************************************************************)
(* Model of hr_recruitment_gemini/models/hr_applicant.py: the CV           *)
(* extraction job lifecycle (submit, background worker, per-record job     *)
(* with its two savepoints, error-write paths) and the skills reconciler.  *)
(*                                                                         *)
(* Text is modelled as a sequence of one-character strings, so that        *)
(* lower-casing, SQL ILIKE patterns, the level-label regular expression    *)
(* and str.endswith are computed as the code computes them.  The empty     *)
(* sequence stands for None / False / "" / a missing key: the code only    *)
(* ever tests these for truthiness.                                        *)
(***************************************************************************)
EXTENDS Integers, Sequences, FiniteSets, TLC

\* A JSON value that is truthy but not a string (a number): str methods
\* called on it raise AttributeError.
NumVal == <<"#num">>

IsStr(v) == v # NumVal

Truthy(v) == v # <<>>

Max(S) == IF S = {} THEN 0 ELSE CHOOSE x \in S : \A y \in S : y <= x

Min(S) == CHOOSE x \in S : \A y \in S : x <= y

\* str.lower() on one character (ASCII; ILIKE folds case the same way).
LowerChar(c) ==
  CASE c = "A" -> "a" [] c = "B" -> "b" [] c = "C" -> "c" [] c = "D" -> "d"
    [] c = "E" -> "e" [] c = "F" -> "f" [] c = "G" -> "g" [] c = "H" -> "h"
    [] c = "I" -> "i" [] c = "J" -> "j" [] c = "K" -> "k" [] c = "L" -> "l"
    [] c = "M" -> "m" [] c = "N" -> "n" [] c = "O" -> "o" [] c = "P" -> "p"
    [] c = "Q" -> "q" [] c = "R" -> "r" [] c = "S" -> "s" [] c = "T" -> "t"
    [] c = "U" -> "u" [] c = "V" -> "v" [] c = "W" -> "w" [] c = "X" -> "x"
    [] c = "Y" -> "y" [] c = "Z" -> "z"
    [] OTHER -> c

Lower(s) == [i \in 1..Len(s) |-> LowerChar(s[i])]

IsSpace(c) == c = " "

IsDigit(c) == c \in {"0", "1", "2", "3", "4", "5", "6", "7", "8", "9"}

DigitVal(c) ==
  CASE c = "0" -> 0 [] c = "1" -> 1 [] c = "2" -> 2 [] c = "3" -> 3
    [] c = "4" -> 4 [] c = "5" -> 5 [] c = "6" -> 6 [] c = "7" -> 7
    [] c = "8" -> 8 [] c = "9" -> 9

RECURSIVE ToInt(_)
ToInt(ds) ==
  IF ds = <<>> THEN 0
  ELSE 10 * ToInt(SubSeq(ds, 1, Len(ds) - 1)) + DigitVal(ds[Len(ds)])

\* str.strip()
RECURSIVE LStrip(_)
LStrip(s) == IF s # <<>> /\ IsSpace(Head(s)) THEN LStrip(Tail(s)) ELSE s

RECURSIVE RStrip(_)
RStrip(s) ==
  IF s # <<>> /\ IsSpace(s[Len(s)]) THEN RStrip(SubSeq(s, 1, Len(s) - 1)) ELSE s

Strip(s) == RStrip(LStrip(s))

EndsWith(s, suffix) ==
  /\ Len(s) >= Len(suffix)
  /\ SubSeq(s, Len(s) - Len(suffix) + 1, Len(s)) = suffix

\* The ORM's '=ilike' operator: SQL ILIKE with the operand passed as the
\* pattern unescaped, so '%' matches any run of characters and '_' any one.
RECURSIVE ILike(_, _)
ILike(s, pattern) ==
  IF pattern = <<>> THEN s = <<>>
  ELSE IF Head(pattern) = "%"
    THEN ILike(s, Tail(pattern)) \/ (s # <<>> /\ ILike(Tail(s), pattern))
  ELSE /\ s # <<>>
       /\ (Head(pattern) = "_" \/ LowerChar(Head(pattern)) = LowerChar(Head(s)))
       /\ ILike(Tail(s), Tail(pattern))

(***************************************************************************)
(* The level label: re.match(r"(.+?)\s*\((\d+)%\)", label), anchored at    *)
(* the start only, group 1 lazy.                                           *)
(***************************************************************************)
\* \s*: the first position >= from that holds no blank (Len(s) + 1 when none).
SkipSpaces(s, from) ==
  Min({j \in from..Len(s) : ~IsSpace(s[j])} \cup {Len(s) + 1})

\* \d+: the first position >= from that holds no digit (Len(s) + 1 when none).
SkipDigits(s, from) ==
  Min({j \in from..Len(s) : ~IsDigit(s[j])} \cup {Len(s) + 1})

\* Does the pattern match with group 1 = s[1..i]?
LabelMatchesAt(s, i) ==
  LET k == SkipSpaces(s, i + 1)
      m == SkipDigits(s, k + 1)
  IN /\ k <= Len(s) /\ s[k] = "("
     /\ m > k + 1
     /\ m + 1 <= Len(s) /\ s[m] = "%" /\ s[m + 1] = ")"

NoLabel == [ok |-> FALSE, name |-> <<>>, progress |-> 0]

ParseLevelLabel(s) ==
  LET cands == {i \in 1..Len(s) : LabelMatchesAt(s, i)}
  IN IF cands = {} THEN NoLabel
     ELSE LET i == Min(cands)
              k == SkipSpaces(s, i + 1)
              m == SkipDigits(s, k + 1)
          IN [ok |-> TRUE,
              name |-> Strip(SubSeq(s, 1, i)),
              progress |-> ToInt(SubSeq(s, k + 1, m - 1))]

(***************************************************************************)
(* The reference taxonomy and the record-skill links, as the ORM tables    *)
(* the reconciler searches and writes.  A row is a record with an id.      *)
(*   types   hr.skill.type        [id, name]                               *)
(*   assoc   skill_level_ids      <<type id, level id>>                    *)
(*   levels  hr.skill.level       [id, name, progress]                     *)
(*   skills  hr.skill             [id, name, type]                         *)
(*   degrees hr.recruitment.degree [id, name]                              *)
(*   links   hr.applicant.skill   [id, applicant, skill, level, type]      *)
(***************************************************************************)
EmptyTax ==
  [types |-> {}, assoc |-> {}, levels |-> {}, skills |-> {}, degrees |-> {},
   links |-> {}]

Ids(rows) == {x.id : x \in rows}

\* create(): the new row's id comes from the table's sequence, which is past
\* every id already handed out (those of the rows `base` another transaction
\* has committed meanwhile included).
NewId(rows, baseRows) == 1 + Max(Ids(rows) \cup Ids(baseRows))

\* search(domain, limit=1) given the rows that match the domain: the id of
\* the first one in id order, 0 for the empty recordset.
Search(matching) ==
  IF matching = {} THEN 0 ELSE Min(Ids(matching))

Row(rows, id) == CHOOSE x \in rows : x.id = id

sBeginner == <<"B", "e", "g", "i", "n", "n", "e", "r">>

sGeneral == <<"G", "e", "n", "e", "r", "a", "l">>

DefaultProgress == 15

\* A faulty variant of the default level: it takes any level named Beginner
\* before it looks for the one with the default progress.
GetOrCreateDefaultSkillLevelByNameFirst(t, base, createFails) ==
  LET byName == Search({l \in t.levels : ILike(l.name, sBeginner)})
      positive == {l \in t.levels : l.progress > 0}
      lowest == IF positive = {} THEN 0
                ELSE LET p == Min({l.progress : l \in positive})
                     IN Min({l.id : l \in {x \in positive : x.progress = p}})
      nid == NewId(t.levels, base.levels)
  IN IF byName # 0 THEN [tax |-> t, id |-> byName, err |-> ""]
     ELSE IF lowest # 0 THEN [tax |-> t, id |-> lowest, err |-> ""]
     ELSE IF createFails
       THEN [tax |-> t, id |-> 0, err |-> "default_level_create"]
     ELSE [tax |-> [t EXCEPT !.levels = @ \cup
                      {[id |-> nid, name |-> sBeginner,
                        progress |-> DefaultProgress]}],
           id |-> nid, err |-> ""]

\* _get_or_create_default_skill_level on the taxonomy view t: [tax, id, err].
\* createFails: the ORM create of step 4 raises, which the method turns into
\* a UserError.
GetOrCreateDefaultSkillLevel(t, base, createFails) ==
  LET exact == Search({l \in t.levels : /\ ILike(l.name, sBeginner)
                                          /\ l.progress = DefaultProgress})
      byName == Search({l \in t.levels : ILike(l.name, sBeginner)})
      positive == {l \in t.levels : l.progress > 0}
      lowest == IF positive = {} THEN 0
                ELSE LET p == Min({l.progress : l \in positive})
                     IN Min({l.id : l \in {x \in positive : x.progress = p}})
      nid == NewId(t.levels, base.levels)
  IN IF exact # 0 THEN [tax |-> t, id |-> exact, err |-> ""]
     ELSE IF byName # 0 THEN [tax |-> t, id |-> byName, err |-> ""]
     ELSE IF lowest # 0 THEN [tax |-> t, id |-> lowest, err |-> ""]
     ELSE IF createFails
       THEN [tax |-> t, id |-> 0, err |-> "default_level_create"]
     ELSE [tax |-> [t EXCEPT !.levels = @ \cup
                      {[id |-> nid, name |-> sBeginner,
                        progress |-> DefaultProgress]}],
           id |-> nid, err |-> ""]

(***************************************************************************)
(* _process_skills.  The loop state S carries the taxonomy view, the three *)
(* per-run caches (sets of [key, id]), the lazily loaded default level     *)
(* (0: None), the exception raised ("": none) and the type, level and    *)
(* skill resolved for the entry in hand.                                   *)
(***************************************************************************)
CacheGet(cache, key) ==
  IF \E x \in cache : x.key = key
  THEN (CHOOSE x \in cache : x.key = key).id
  ELSE 0

CachePut(cache, key, id) ==
  {x \in cache : x.key # key} \cup {[key |-> key, id |-> id]}

AttributeError == "AttributeError"

Raise(S, e) == [S EXCEPT !.err = e]

\* --- 1. Find or Create Skill Type ---
ResolveSkillType(S, entry, base) ==
  LET type_name_str == IF Truthy(entry.type) THEN entry.type ELSE sGeneral
      key == Lower(type_name_str)
      cached == CacheGet(S.tc, key)
      found == Search({t \in S.tax.types : ILike(t.name, type_name_str)})
      nid == NewId(S.tax.types, base.types)
  IN IF ~IsStr(type_name_str) THEN Raise(S, AttributeError)
     ELSE IF cached # 0 THEN [S EXCEPT !.ty = cached]
     ELSE IF found # 0
       THEN [S EXCEPT !.ty = found, !.tc = CachePut(@, key, found)]
     ELSE [S EXCEPT !.tax.types = @ \cup {[id |-> nid, name |-> type_name_str]},
                    !.ty = nid, !.tc = CachePut(@, key, nid)]

\* --- 2. Find or Create Skill Level --- (the label branch: the level found
\* or created for a truthy label, 0 when none).  match is the result of
\* re.match on the label, found the search result of the cascade
\* pair -> name, the name search using the label as given.
SearchLabelLevel(levels, level_name_str, match) ==
  LET byPair == IF match.ok
                THEN Search({l \in levels : /\ ILike(l.name, match.name)
                                        /\ l.progress = match.progress})
                ELSE 0
  IN IF byPair # 0 THEN byPair
     ELSE Search({l \in levels : ILike(l.name, level_name_str)})

\* A faulty variant of the store: the level it creates gets the default
\* progress instead of the parsed one.
StoreLabelLevelDefaultProgress(S, key, match, found, nid) ==
  IF found # 0
    THEN [S EXCEPT !.lv = found, !.lc = CachePut(@, key, found)]
  ELSE IF match.ok
    THEN [S EXCEPT !.tax.levels = @ \cup
                     {[id |-> nid, name |-> match.name,
                       progress |-> DefaultProgress]},
                   !.lv = nid, !.lc = CachePut(@, key, nid)]
  ELSE [S EXCEPT !.lv = 0]

StoreLabelLevel(S, key, match, found, nid) ==
  IF found # 0
    THEN [S EXCEPT !.lv = found, !.lc = CachePut(@, key, found)]
  ELSE IF match.ok
    THEN [S EXCEPT !.tax.levels = @ \cup
                     {[id |-> nid, name |-> match.name,
                       progress |-> match.progress]},
                   !.lv = nid, !.lc = CachePut(@, key, nid)]
  ELSE [S EXCEPT !.lv = 0]

FindOrCreateLabelLevel(S, level_name_str, match, base) ==
  StoreLabelLevel(S, Lower(level_name_str), match,
                  SearchLabelLevel(S.tax.levels, level_name_str, match),
                  NewId(S.tax.levels, base.levels))

ResolveLabelLevel(S, entry, base) ==
  LET cached == CacheGet(S.lc, Lower(entry.level))
  IN IF cached # 0 THEN [S EXCEPT !.lv = cached]
     ELSE FindOrCreateLabelLevel(S, entry.level, ParseLevelLabel(entry.level),
                                 base)

\* A faulty variant of the level resolution: it hands back no level when
\* the label gave none.
ResolveDefaultLevelNone(S, base, createFails) == S

\* The default level when the label gave none, loaded once per run.
ResolveDefaultLevel(S, base, createFails) ==
  IF S.lv # 0 THEN S
  ELSE IF S.dl # 0 THEN [S EXCEPT !.lv = S.dl]
  ELSE LET d == GetOrCreateDefaultSkillLevel(S.tax, base, createFails)
       IN IF d.err # "" THEN Raise(S, d.err)
          ELSE [S EXCEPT !.tax = d.tax, !.dl = d.id, !.lv = d.id]

ResolveSkillLevel(S, entry, base, createFails) ==
  IF S.err # "" THEN S
  ELSE IF Truthy(entry.level) /\ ~IsStr(entry.level) THEN Raise(S, AttributeError)
  ELSE ResolveDefaultLevel(
         IF Truthy(entry.level) THEN ResolveLabelLevel(S, entry, base)
         ELSE [S EXCEPT !.lv = 0],
         base, createFails)
\* A faulty variant of the association: it replaces the levels the type
\* allows by the resolved one.
AssociateLevelReplacing(S) ==
  IF S.err # "" THEN S
  ELSE [S EXCEPT !.tax.assoc =
          {p \in @ : p[1] # S.ty} \cup {<<S.ty, S.lv>>}]

\* --- 3. Associate Level with Type ---
AssociateLevel(S) ==
  IF S.err # "" THEN S
  ELSE IF <<S.ty, S.lv>> \notin S.tax.assoc
    THEN [S EXCEPT !.tax.assoc = @ \cup {<<S.ty, S.lv>>}]
  ELSE S

\* --- 4. Find or Create Skill ---
ResolveSkill(S, entry, base) ==
  LET skill_name_str == entry.skill
      key == Lower(skill_name_str)
      cached == CacheGet(S.sc, key)
      found == Search({k \in S.tax.skills : ILike(k.name, skill_name_str)})
      nid == NewId(S.tax.skills, base.skills)
  IN IF S.err # "" THEN S
     ELSE IF ~IsStr(skill_name_str) THEN Raise(S, AttributeError)
     ELSE IF cached # 0 THEN [S EXCEPT !.sk = cached]
     ELSE IF found = 0
       THEN [S EXCEPT !.tax.skills = @ \cup
                        {[id |-> nid, name |-> skill_name_str, type |-> S.ty]},
                      !.sk = nid, !.sc = CachePut(@, key, nid)]
     ELSE IF Row(S.tax.skills, found).type # S.ty
       THEN [S EXCEPT !.tax.skills =
                        (@ \ {Row(S.tax.skills, found)}) \cup
                        {[Row(S.tax.skills, found) EXCEPT !.type = S.ty]},
                      !.sk = found, !.sc = CachePut(@, key, found)]
     ELSE [S EXCEPT !.sk = found, !.sc = CachePut(@, key, found)]
\* A faulty variant of the link step: an existing link takes the level and
\* the type of the entry.
LinkSkillUpdating(S, rid, base) ==
  LET existing_link == Search({k \in S.tax.links :
                                 k.applicant = rid /\ k.skill = S.sk})
  IN IF S.err # "" THEN S
     ELSE IF existing_link = 0
       THEN [S EXCEPT !.tax.links = @ \cup
                        {[id |-> NewId(S.tax.links, base.links),
                          applicant |-> rid, skill |-> S.sk,
                          level |-> S.lv, type |-> S.ty]}]
     ELSE [S EXCEPT !.tax.links =
             {IF k.id = existing_link
              THEN [k EXCEPT !.level = S.lv, !.type = S.ty] ELSE k : k \in @}]

\* --- 5. Create Applicant-Skill Link ---
LinkSkill(S, rid, base) ==
  LET existing_link == Search({k \in S.tax.links :
                                 k.applicant = rid /\ k.skill = S.sk})
  IN IF S.err # "" THEN S
     ELSE IF existing_link = 0
       THEN [S EXCEPT !.tax.links = @ \cup
                        {[id |-> NewId(S.tax.links, base.links),
                          applicant |-> rid, skill |-> S.sk,
                          level |-> S.lv, type |-> S.ty]}]
     ELSE S

\* One pass of the loop body.  An entry that is not a dict, or has no skill
\* name, is skipped before the try block.  Each step works on the state its
\* predecessor left, bound once.
ProcessSkillEntry(S, rid, entry, base, createFails) ==
  IF ~entry.dict \/ ~Truthy(entry.skill) THEN S
  ELSE CHOOSE out \in
         {LinkSkill(s4, rid, base) : s4 \in
           {ResolveSkill(s3, entry, base) : s3 \in
             {AssociateLevel(s2) : s2 \in
               {ResolveSkillLevel(s1, entry, base, createFails) : s1 \in
                 {ResolveSkillType(s0, entry, base) : s0 \in {S}}}}}} : TRUE

RECURSIVE ProcessSkillLoop(_, _, _, _, _)
ProcessSkillLoop(S, rid, list, base, createFails) ==
  IF list = <<>> THEN S
  ELSE CHOOSE out \in
         {IF s.err # "" THEN s
          ELSE ProcessSkillLoop(
                 ProcessSkillEntry(s, rid, Head(list), base, createFails),
                 rid, Tail(list), base, createFails) : s \in {S}} : TRUE

LoopOutcome(S) == [tax |-> S.tax, err |-> S.err]

\* A skills payload is [list |-> BOOLEAN, items |-> sequence of entries]: a
\* truthy value that is not a list has list = FALSE.
\* _process_skills(view, rid, skills): [tax, err], tax being the view after
\* the writes made before the exception, if any, was re-raised.
ProcessSkills(view, rid, skills, base, createFails) ==
  IF skills.items = <<>> \/ ~skills.list THEN [tax |-> view, err |-> ""]
  ELSE LoopOutcome(ProcessSkillLoop(
                     [tax |-> view, tc |-> {}, lc |-> {}, sc |-> {}, dl |-> 0,
                      err |-> "", ty |-> 0, lv |-> 0, sk |-> 0],
                     rid, skills.items, base, createFails))

(***************************************************************************)
(* _parse_gemini_response.  A raw response is a sequence of tokens: prose  *)
(* "t", blank " ", the fence delimiters, "{", "}", "[]" (a JSON array) and *)
(* the names of object bodies (the text between an object's braces).       *)
(***************************************************************************)
FenceOpen == "[fence-json]"

FenceClose == "[fence]"

NoPayload ==
  [name |-> <<>>, email |-> <<>>, phone |-> <<>>, linkedin |-> <<>>,
   degree |-> <<>>, skills |-> [list |-> TRUE, items |-> <<>>]]

Entry(t, k, l) == [dict |-> TRUE, type |-> t, skill |-> k, level |-> l]

SkillList(items) == [list |-> TRUE, items |-> items]

sB2 == <<"B", "2", " ", "(", "7", "5", "%", ")">>

\* The object bodies the provider may return.
BodyNames == {"full", "badskill", "bare"}

Body(b) ==
  CASE b = "full" ->
         [NoPayload EXCEPT !.name = <<"J">>, !.email = <<"j", "@">>,
                           !.degree = <<"D">>,
                           !.skills = SkillList(<<Entry(<<"T">>, <<"p">>, sB2)>>)]
    [] b = "badskill" ->
         [NoPayload EXCEPT !.name = <<"K">>, !.degree = <<"d">>,
                           !.skills = SkillList(<<Entry(<<"T">>, <<"q">>, <<>>),
                                                  Entry(<<"U">>, NumVal, <<>>)>>)]
    [] b = "bare" -> NoPayload

\* json.loads of the candidate text: [ok, dict, data].
JsonLoads(json_text) ==
  LET toks == SelectSeq(json_text, LAMBDA c : c # " ")
  IN IF toks = <<"{", "}">> THEN [ok |-> TRUE, dict |-> TRUE, data |-> NoPayload]
     ELSE IF Len(toks) = 3 /\ toks[1] = "{" /\ toks[3] = "}" /\ toks[2] \in BodyNames
       THEN [ok |-> TRUE, dict |-> TRUE, data |-> Body(toks[2])]
     ELSE IF toks = <<"[]">> THEN [ok |-> TRUE, dict |-> FALSE, data |-> NoPayload]
     ELSE [ok |-> FALSE, dict |-> FALSE, data |-> NoPayload]

\* A faulty variant of the parser: when the interior of the fenced block does
\* not decode it falls back to the brace span.
ParseWithBraceFallback(response_text) ==
  LET n == Len(response_text)
      opens == {i \in 1..n : response_text[i] = FenceOpen
                             /\ \E j \in (i + 1)..n : response_text[j] = FenceClose}
      lbr == {i \in 1..n : response_text[i] = "{"}
      rbr == {j \in 1..n : response_text[j] = "}"}
      span == IF lbr # {} /\ rbr # {} /\ Min(lbr) < Max(rbr)
              THEN JsonLoads(SubSeq(response_text, Min(lbr), Max(rbr)))
              ELSE [ok |-> FALSE, dict |-> FALSE, data |-> NoPayload]
  IN IF opens # {}
       THEN LET i == Min(opens)
                j == Min({k \in (i + 1)..n : response_text[k] = FenceClose})
                inner == JsonLoads(SubSeq(response_text, i + 1, j - 1))
            IN IF inner.ok THEN inner ELSE span
     ELSE span

ParseGeminiResponse(response_text) ==
  LET n == Len(response_text)
      opens == {i \in 1..n : response_text[i] = FenceOpen
                             /\ \E j \in (i + 1)..n : response_text[j] = FenceClose}
      lbr == {i \in 1..n : response_text[i] = "{"}
      rbr == {j \in 1..n : response_text[j] = "}"}
  IN IF opens # {}
       THEN LET i == Min(opens)
                j == Min({k \in (i + 1)..n : response_text[k] = FenceClose})
            IN JsonLoads(SubSeq(response_text, i + 1, j - 1))
     ELSE IF lbr # {} /\ rbr # {} /\ Min(lbr) < Max(rbr)
       THEN JsonLoads(SubSeq(response_text, Min(lbr), Max(rbr)))
     ELSE [ok |-> FALSE, dict |-> FALSE, data |-> NoPayload]

(***************************************************************************)
(* _write_extracted_data.  An applicant row is                             *)
(*   [state, status, name, partner_name, email_from, partner_phone,        *)
(*    linkedin_profile, type_id]                                           *)
(***************************************************************************)
AppSuffix == <<"'", "s", " ", "A", "p", "p", "l", "i", "c", "a", "t", "i", "o", "n">>

\* The degree branch on the taxonomy view: [tax, id], id = 0 when the
\* degree was neither found nor created (the create raised and was swallowed).
FindOrCreateDegree(view, degree_name, base, createFails) ==
  LET found == Search({d \in view.degrees : ILike(d.name, degree_name)})
      nid == NewId(view.degrees, base.degrees)
  IN IF found # 0 THEN [tax |-> view, id |-> found]
     ELSE IF createFails THEN [tax |-> view, id |-> 0]
     ELSE [tax |-> [view EXCEPT !.degrees = @ \cup
                      {[id |-> nid, name |-> degree_name]}],
           id |-> nid]

\* A faulty variant of the field writer: it renames the applicant whenever
\* the payload has a name.
WriteExtractedDataRenaming(row, data, view, base, createFails) ==
  LET deg == IF Truthy(data.degree)
             THEN FindOrCreateDegree(view, data.degree, base, createFails)
             ELSE [tax |-> view, id |-> 0]
      r1 == IF Truthy(data.name)
            THEN [row EXCEPT !.partner_name = data.name,
                             !.name = data.name \o AppSuffix]
            ELSE row
      r2 == IF Truthy(data.email) THEN [r1 EXCEPT !.email_from = data.email] ELSE r1
      r3 == IF Truthy(data.phone) THEN [r2 EXCEPT !.partner_phone = data.phone] ELSE r2
      r4 == IF Truthy(data.linkedin)
            THEN [r3 EXCEPT !.linkedin_profile = data.linkedin] ELSE r3
      r5 == IF deg.id # 0 THEN [r4 EXCEPT !.type_id = deg.id] ELSE r4
  IN [row |-> r5, tax |-> deg.tax]

\* A faulty variant of the field writer: it writes every field of the
\* payload, the empty ones too.
WriteExtractedDataBlanking(row, data, view, base, createFails) ==
  LET deg == IF Truthy(data.degree)
             THEN FindOrCreateDegree(view, data.degree, base, createFails)
             ELSE [tax |-> view, id |-> 0]
      r1 == IF Truthy(data.name)
            THEN [row EXCEPT
                    !.partner_name = data.name,
                    !.name = IF ~Truthy(row.name) \/ EndsWith(row.name, AppSuffix)
                             THEN data.name \o AppSuffix ELSE @]
            ELSE row
      r4 == [r1 EXCEPT !.email_from = data.email, !.partner_phone = data.phone,
                       !.linkedin_profile = data.linkedin]
      r5 == IF deg.id # 0 THEN [r4 EXCEPT !.type_id = deg.id] ELSE r4
  IN [row |-> r5, tax |-> deg.tax]

\* A faulty variant of the field writer: a degree whose creation failed
\* makes it lose the contact fields, only the title is written.
WriteExtractedDataAborting(row, data, view, base, createFails) ==
  LET deg == IF Truthy(data.degree)
             THEN FindOrCreateDegree(view, data.degree, base, createFails)
             ELSE [tax |-> view, id |-> 0]
      r1 == IF Truthy(data.name)
            THEN [row EXCEPT
                    !.partner_name = data.name,
                    !.name = IF ~Truthy(row.name) \/ EndsWith(row.name, AppSuffix)
                             THEN data.name \o AppSuffix ELSE @]
            ELSE row
      r2 == IF Truthy(data.email) THEN [r1 EXCEPT !.email_from = data.email] ELSE r1
      r3 == IF Truthy(data.phone) THEN [r2 EXCEPT !.partner_phone = data.phone] ELSE r2
      r4 == IF Truthy(data.linkedin)
            THEN [r3 EXCEPT !.linkedin_profile = data.linkedin] ELSE r3
      r5 == IF deg.id # 0 THEN [r4 EXCEPT !.type_id = deg.id] ELSE r4
  IN IF Truthy(data.degree) /\ deg.id = 0
       THEN [row |-> [row EXCEPT !.name = r1.name], tax |-> view]
     ELSE [row |-> r5, tax |-> deg.tax]

\* [row, tax]: the row after self.write(write_vals), the view after the
\* degree lookup.
WriteExtractedData(row, data, view, base, createFails) ==
  LET deg == IF Truthy(data.degree)
             THEN FindOrCreateDegree(view, data.degree, base, createFails)
             ELSE [tax |-> view, id |-> 0]
      r1 == IF Truthy(data.name)
            THEN [row EXCEPT
                    !.partner_name = data.name,
                    !.name = IF ~Truthy(row.name) \/ EndsWith(row.name, AppSuffix)
                             THEN data.name \o AppSuffix ELSE @]
            ELSE row
      r2 == IF Truthy(data.email) THEN [r1 EXCEPT !.email_from = data.email] ELSE r1
      r3 == IF Truthy(data.phone) THEN [r2 EXCEPT !.partner_phone = data.phone] ELSE r2
      r4 == IF Truthy(data.linkedin)
            THEN [r3 EXCEPT !.linkedin_profile = data.linkedin] ELSE r3
      r5 == IF deg.id # 0 THEN [r4 EXCEPT !.type_id = deg.id] ELSE r4
  IN [row |-> r5, tax |-> deg.tax]

(***************************************************************************)
(* The job lifecycle.                                                      *)
(*                                                                         *)
(* The record store is PostgreSQL behind the ORM: `rec` and `tax` hold the *)
(* committed rows, which is what every other cursor (the form view, a      *)
(* submit request, another worker) reads.  A worker's cursor sees the      *)
(* snapshot taken when its job began plus its own uncommitted writes; an   *)
(* uncommitted write locks the row against the other cursors' writes.      *)
(***************************************************************************)
Records == {1, 2}

MaxBatches == 2

Workers == 1..MaxBatches

\* The recordsets a submit may be called on, in recordset order.
Batches == {<<1>>, <<2>>, <<1, 2>>}

\* message_main_attachment_id: none, a file with empty datas, a file.
Attachments == {"none", "empty", "data"}

\* The installations the model starts from: a company and the attachment
\* of each applicant.
Settings ==
  {[company |-> [mode |-> "manual_send", api_key |-> TRUE, model |-> TRUE],
    att |-> <<"data", "data">>],
   [company |-> [mode |-> "manual_send", api_key |-> TRUE, model |-> FALSE],
    att |-> <<"data", "empty">>],
   [company |-> [mode |-> "manual_send", api_key |-> FALSE, model |-> TRUE],
    att |-> <<"data", "data">>],
   [company |-> [mode |-> "no_send", api_key |-> TRUE, model |-> TRUE],
    att |-> <<"data", "data">>],
   [company |-> [mode |-> "manual_send", api_key |-> TRUE, model |-> TRUE],
    att |-> <<"none", "data">>]}

\* The raw texts the provider may answer with.
Responses ==
  {<<"{", "full", "}">>,
   <<"t", FenceOpen, "{", "badskill", "}", FenceClose>>,
   <<"t", "{", "full">>,
   <<"{", "t", "}">>}

VARIABLES company, att, rec, tax, wk, resp, lastRun, lastParse

vars == <<company, att, rec, tax, wk, resp, lastRun, lastParse>>

Status(kind, reason, raw) == [kind |-> kind, reason |-> reason, raw |-> raw]

\* The row of a freshly created applicant (gemini_extract_state default).
InitRow ==
  [state |-> "no_extract", status |-> Status("none", "", <<>>), name |-> <<>>,
   partner_name |-> <<>>, email_from |-> <<>>, partner_phone |-> <<>>,
   linkedin_profile |-> <<>>, type_id |-> 0]

\* No thread yet.
NoWorker == [pc |-> "unused", batch |-> <<>>, idx |-> 0, snap |-> EmptyTax]

\* lastRun records the last run of the skills step made on its own: the
\* record, the list and the exception it ended with ("": none).
NoRun == [rid |-> 0, skills |-> SkillList(<<>>), err |-> ""]

\* lastParse records the last call of _parse_gemini_response made on its
\* own: the raw text, whether the call was made and what it gave.
NoParse ==
  [text |-> <<>>, called |-> FALSE,
   out |-> [ok |-> FALSE, dict |-> FALSE, data |-> NoPayload]]

\* A faulty variant of the compute: it forgets the attachment.
CanExtractWithoutAttachment(co, attachment, state) ==
  co.mode = "manual_send" /\ state \in {"no_extract", "error", "done"}

\* _compute_can_extract_with_gemini
CanExtract(co, attachment, state) ==
  LET is_manual_mode == co.mode = "manual_send"
      can_retry == state \in {"no_extract", "error", "done"}
  IN is_manual_mode /\ attachment # "none" /\ can_retry

\* The record a worker's loop is at.
Current(w) == wk[w].batch[wk[w].idx]

\* The row of r carries an uncommitted write of a worker other than w: w's
\* own write to it waits.
Locked(r, w) ==
  \E o \in Workers \ {w} : wk[o].pc = "calling" /\ Current(o) = r

\* The except clause of _run_gemini_extraction_in_thread: the exception
\* left the with block (the worker's cursor is closed, its transaction
\* gone); every id of the batch is written 'error' through a new cursor,
\* and a failure of that write is only logged.
ThreadFail(w, reason) ==
  /\ \A r \in Records :
       (\E i \in 1..Len(wk[w].batch) : wk[w].batch[i] = r) => ~Locked(r, w)
  /\ \E writeOK \in BOOLEAN :
       rec' = [r \in Records |->
                 IF writeOK /\ \E i \in 1..Len(wk[w].batch) : wk[w].batch[i] = r
                 THEN [rec[r] EXCEPT !.state = "error",
                                     !.status = Status("thread_error", reason, <<>>)]
                 ELSE rec[r]]
  /\ wk' = [wk EXCEPT ![w] = [NoWorker EXCEPT !.pc = "finished"]]
  /\ resp' = ""
  /\ UNCHANGED <<company, att, tax, lastRun, lastParse>>

\* The except clause of the per-applicant try: rollback, then 'error' and
\* the message written and committed through a new cursor; a failure of
\* that write is only logged.  A rollback that raises leaves the loop.
JobFail(w, reason, raw) ==
  \/ ThreadFail(w, "rollback_error")
  \/ /\ ~Locked(Current(w), w)
     /\ \E writeOK \in BOOLEAN :
          rec' = IF writeOK
                 THEN [rec EXCEPT ![Current(w)].state = "error",
                                  ![Current(w)].status = Status("error", reason, raw)]
                 ELSE rec
     /\ wk' = [wk EXCEPT ![w].pc = "ready", ![w].idx = @ + 1,
                         ![w].snap = EmptyTax]
     /\ resp' = ""
     /\ UNCHANGED <<company, att, tax, lastRun, lastParse>>

\* A faulty variant of the submit: once one record of the set is eligible it
\* takes the whole set.
SubmitWholeSet(ids) ==
  LET eligible ==
        SelectSeq(ids, LAMBDA r : CanExtract(company, att[r], rec[r].state))
      pending ==
        [r \in Records |->
           IF \E i \in 1..Len(ids) : ids[i] = r
           THEN [rec[r] EXCEPT !.state = "pending",
                               !.status = Status("pending", "", <<>>)]
           ELSE rec[r]]
  IN \/ /\ eligible = <<>>
        /\ resp' = "UserError"
        /\ UNCHANGED <<company, att, rec, tax, wk, lastRun, lastParse>>
     \/ /\ eligible # <<>>
        /\ \E w \in Workers :
             /\ wk[w].pc = "unused"
             /\ \A o \in 1..(w - 1) : wk[o].pc # "unused"
             /\ rec' = pending
             /\ \/ /\ wk' = [wk EXCEPT ![w] = [NoWorker EXCEPT
                                                 !.pc = "launched",
                                                 !.batch = ids,
                                                 !.idx = 1]]
                   /\ resp' = "True"
                \/ /\ wk' = wk
                   /\ resp' = "RuntimeError"
        /\ UNCHANGED <<company, att, tax, lastRun, lastParse>>

\* action_extract_with_gemini on the recordset ids.  The filter, the write
\* of 'pending' and the commit are one step: PostgreSQL refuses the commit
\* of a request whose rows another transaction wrote meanwhile, and the
\* request then runs again.  thread.start() follows the commit and raises
\* RuntimeError when no thread can be started.
Submit(ids) ==
  LET applicants_to_process ==
        SelectSeq(ids, LAMBDA r : CanExtract(company, att[r], rec[r].state))
      pending ==
        [r \in Records |->
           IF \E i \in 1..Len(applicants_to_process) : applicants_to_process[i] = r
           THEN [rec[r] EXCEPT !.state = "pending",
                               !.status = Status("pending", "", <<>>)]
           ELSE rec[r]]
  IN \/ /\ applicants_to_process = <<>>
        /\ resp' = "UserError"
        /\ UNCHANGED <<company, att, rec, tax, wk, lastRun, lastParse>>
     \/ /\ applicants_to_process # <<>>
        /\ \E w \in Workers :
             /\ wk[w].pc = "unused"
             /\ \A o \in 1..(w - 1) : wk[o].pc # "unused"
             /\ rec' = pending
             /\ \/ /\ wk' = [wk EXCEPT ![w] = [NoWorker EXCEPT
                                                 !.pc = "launched",
                                                 !.batch = applicants_to_process,
                                                 !.idx = 1]]
                   /\ resp' = "True"
                \/ /\ wk' = wk
                   /\ resp' = "RuntimeError"
        /\ UNCHANGED <<company, att, tax, lastRun, lastParse>>

\* _run_gemini_extraction_in_thread up to the call of _run_gemini_extraction:
\* the worker's cursor and environment are created, or creating them raises.
ThreadStart(w) ==
  /\ wk[w].pc = "launched"
  /\ \/ /\ wk' = [wk EXCEPT ![w].pc = "ready"]
        /\ resp' = ""
        /\ UNCHANGED <<company, att, rec, tax, lastRun, lastParse>>
     \/ ThreadFail(w, "cursor_error")

\* model_name = company.gemini_model or 'gemini-1.5-flash-latest'
ModelName(co) == IF co.model THEN "configured" ELSE "gemini-1.5-flash-latest"

\* 1. Validate Configuration: the message of the UserError raised, "" if none.
ConfigError(co, attachment) ==
  IF ~co.api_key THEN "Gemini API Key is not set"
  ELSE IF ModelName(co) = "" THEN "Gemini Model is not set"
  ELSE IF attachment = "none" THEN "No CV attached"
  ELSE IF attachment = "empty" THEN "Attached CV is empty"
  ELSE ""

\* A faulty variant of the start of a job: the write of 'processing' is
\* committed before the provider is called.
BeginJobCommitting(w) ==
  /\ wk[w].pc = "ready"
  /\ wk[w].idx <= Len(wk[w].batch)
  /\ IF ConfigError(company, att[Current(w)]) # ""
     THEN JobFail(w, ConfigError(company, att[Current(w)]), <<>>)
     ELSE /\ ~Locked(Current(w), w)
          /\ rec' = [rec EXCEPT ![Current(w)].state = "processing"]
          /\ wk' = [wk EXCEPT ![w].pc = "calling", ![w].snap = tax]
          /\ resp' = ""
          /\ UNCHANGED <<company, att, tax, lastRun, lastParse>>

\* The loop of _run_gemini_extraction takes the next applicant: validation,
\* then the write of 'processing' inside the savepoint (uncommitted, it
\* locks the row), then the provider is called.
BeginJob(w) ==
  /\ wk[w].pc = "ready"
  /\ wk[w].idx <= Len(wk[w].batch)
  /\ IF ConfigError(company, att[Current(w)]) # ""
     THEN JobFail(w, ConfigError(company, att[Current(w)]), <<>>)
     ELSE /\ ~Locked(Current(w), w)
          /\ wk' = [wk EXCEPT ![w].pc = "calling", ![w].snap = tax]
          /\ resp' = ""
          /\ UNCHANGED <<company, att, rec, tax, lastRun, lastParse>>

\* hr_recruitment_skills is a dependency of the module: always installed.
SkillsInstalled == TRUE

\* if write_vals: the payload gives self.write something to write.
HasWriteVals(data, degreeId) ==
  \/ Truthy(data.name) \/ Truthy(data.email) \/ Truthy(data.phone)
  \/ Truthy(data.linkedin) \/ degreeId # 0

\* The rows a transaction that worked on the view `new` of snapshot `snap`
\* adds to or changes in the committed tables at its commit.
MergeRows(committed, snap, new) ==
  {x \in committed : x.id \notin Ids(new \ snap)} \cup (new \ snap)

Commit(committed, snap, new) ==
  [types |-> MergeRows(committed.types, snap.types, new.types),
   assoc |-> committed.assoc \cup (new.assoc \ snap.assoc),
   levels |-> MergeRows(committed.levels, snap.levels, new.levels),
   skills |-> MergeRows(committed.skills, snap.skills, new.skills),
   degrees |-> MergeRows(committed.degrees, snap.degrees, new.degrees),
   links |-> MergeRows(committed.links, snap.links, new.links)]

\* A faulty variant of step 2: a failure keeps the writes made before it.
SkillsStepKeepingWrites(view, rid, skills, base, createFails) ==
  LET run == ProcessSkills(view, rid, skills, base, createFails)
  IN IF ~Truthy(skills.items) \/ ~SkillsInstalled
       THEN [tax |-> view, status |-> Status("success", "", <<>>)]
     ELSE IF run.err # ""
       THEN [tax |-> run.tax, status |-> Status("partial", run.err, <<>>)]
     ELSE [tax |-> run.tax, status |-> Status("success", "", <<>>)]

\* Transaction step 2 under its own savepoint: [tax, message].  A failure
\* rolls the view back to the savepoint and changes the status message.
SkillsStep(view, rid, skills, base, createFails) ==
  LET run == ProcessSkills(view, rid, skills, base, createFails)
  IN IF ~Truthy(skills.items) \/ ~SkillsInstalled
       THEN [tax |-> view, status |-> Status("success", "", <<>>)]
     ELSE IF run.err # ""
       THEN [tax |-> view, status |-> Status("partial", run.err, <<>>)]
     ELSE [tax |-> run.tax, status |-> Status("success", "", <<>>)]

\* A faulty variant of step 3: it writes the row as it was before the core
\* step.
FinishJobLosingCore(w, row, step) ==
  /\ rec' = [rec EXCEPT ![Current(w)] =
               [rec[Current(w)] EXCEPT !.state = "done", !.status = step.status]]
  /\ tax' = Commit(tax, wk[w].snap, step.tax)
  /\ wk' = [wk EXCEPT ![w].pc = "ready", ![w].idx = @ + 1, ![w].snap = EmptyTax]
  /\ resp' = ""
  /\ UNCHANGED <<company, att, lastRun, lastParse>>

\* Transaction step 3: 'done' and the message are written and everything
\* is committed.
FinishJob(w, row, step) ==
  /\ rec' = [rec EXCEPT ![Current(w)] =
               [row EXCEPT !.state = "done", !.status = step.status]]
  /\ tax' = Commit(tax, wk[w].snap, step.tax)
  /\ wk' = [wk EXCEPT ![w].pc = "ready", ![w].idx = @ + 1, ![w].snap = EmptyTax]
  /\ resp' = ""
  /\ UNCHANGED <<company, att, lastRun, lastParse>>

\* generate_content returns response_text: steps 5 to 7 of the core step,
\* then the skills step and the commit, or the failure of one of them.
ProviderReturns(w, response_text) ==
  LET parsed == ParseGeminiResponse(response_text)
  IN /\ wk[w].pc = "calling"
     /\ IF ~parsed.ok
        THEN JobFail(w, "invalid response that could not be parsed", response_text)
        ELSE IF ~parsed.dict
        THEN JobFail(w, AttributeError, <<>>)
        ELSE \E degreeFails, levelFails \in BOOLEAN :
               LET wr == WriteExtractedData(rec[Current(w)], parsed.data,
                                            wk[w].snap, tax, degreeFails)
                   step == SkillsStep(wr.tax, Current(w), parsed.data.skills,
                                      tax, levelFails)
               IN \/ FinishJob(w, wr.row, step)
                  \/ /\ HasWriteVals(parsed.data, wr.row.type_id)
                     /\ JobFail(w, "write_error", <<>>)

\* generate_content raises.
ProviderRaises(w) ==
  /\ wk[w].pc = "calling"
  /\ JobFail(w, "provider_error", <<>>)

\* The loop is over: the with block commits and closes the worker's cursor.
ThreadEnd(w) ==
  /\ wk[w].pc = "ready"
  /\ wk[w].idx > Len(wk[w].batch)
  /\ wk' = [wk EXCEPT ![w] = [NoWorker EXCEPT !.pc = "finished"]]
  /\ resp' = ""
  /\ UNCHANGED <<company, att, rec, tax, lastRun, lastParse>>

Init ==
  /\ \E s \in Settings : company = s.company /\ att = s.att
  /\ rec = [r \in Records |-> InitRow]
  /\ tax = EmptyTax
  /\ wk = [w \in Workers |-> NoWorker]
  /\ resp = ""
  /\ lastRun = NoRun
  /\ lastParse = NoParse

Next ==
  \/ \E ids \in Batches : Submit(ids)
  \/ \E w \in Workers : ThreadStart(w)
  \/ \E w \in Workers : BeginJob(w)
  \/ \E w \in Workers : \E t \in Responses : ProviderReturns(w, t)
  \/ \E w \in Workers : ProviderRaises(w)
  \/ \E w \in Workers : ThreadEnd(w)

Spec == Init /\ [][Next]_vars

(***************************************************************************)
(* The state of a record as the cursor working on it has it: 'processing' *)
(* between the write of line 221 and the end of the job, the committed     *)
(* state otherwise.                                                        *)
(***************************************************************************)
View(r) ==
  IF \E w \in Workers : wk[w].pc = "calling" /\ Current(w) = r
  THEN "processing"
  ELSE rec[r].state

\* The batch of w still holds a job for r: queued behind the thread start or
\* the records before it, or running.
InFlight(r, w) ==
  /\ wk[w].pc \in {"launched", "ready", "calling"}
  /\ \E i \in wk[w].idx..Len(wk[w].batch) : wk[w].batch[i] = r

InBatch(r, w) == \E i \in 1..Len(wk[w].batch) : wk[w].batch[i] = r

(***************************************************************************)
(* The eligibility predicate on its own: the fields it depends on are      *)
(* written as test_05 writes them, and the computed field is read.         *)
(***************************************************************************)
Modes == {"manual_send", "no_send"}

States == {"no_extract", "pending", "processing", "done", "error"}

\* env.company.gemini_cv_extract_mode = m
WriteMode(m) ==
  /\ company' = [company EXCEPT !.mode = m]
  /\ resp' = ""
  /\ UNCHANGED <<att, rec, tax, wk, lastRun, lastParse>>

\* applicant.message_main_attachment_id = a
WriteAttachment(r, a) ==
  /\ att' = [att EXCEPT ![r] = a]
  /\ resp' = ""
  /\ UNCHANGED <<company, rec, tax, wk, lastRun, lastParse>>

\* applicant.gemini_extract_state = st
WriteState(r, st) ==
  /\ rec' = [rec EXCEPT ![r].state = st]
  /\ resp' = ""
  /\ UNCHANGED <<company, att, tax, wk, lastRun, lastParse>>

\* applicant.can_extract_with_gemini is read: the compute method runs.
ReadCanExtract(r) ==
  /\ resp' = IF CanExtract(company, att[r], rec[r].state)
             THEN "can_extract=True" ELSE "can_extract=False"
  /\ UNCHANGED <<company, att, rec, tax, wk, lastRun, lastParse>>

NextEligibility ==
  \/ \E m \in Modes : WriteMode(m)
  \/ \E r \in Records : \E a \in Attachments : WriteAttachment(r, a)
  \/ \E r \in Records : \E st \in States : WriteState(r, st)
  \/ \E r \in Records : ReadCanExtract(r)

SpecEligibility == Init /\ [][NextEligibility]_vars

(***************************************************************************)
(* The skills step on its own: jobs that run one after the other, each on  *)
(* the taxonomy the jobs before it committed.                              *)
(***************************************************************************)
MaxSkills == 2

sAb == <<"a", "b">>

\* The skill entries a payload may hold: no level label and a type; no
\* type, the same skill name in another case and a label that parses; a
\* name with an ILIKE wildcard and a label that does not parse.
SkillEntries ==
  {Entry(<<"T">>, sAb, <<>>),
   Entry(<<>>, <<"A", "B">>, sB2),
   Entry(<<"T">>, <<"a", "_">>, <<"x">>)}

SkillLists ==
  UNION {[1..n -> SkillEntries] : n \in 0..MaxSkills}

\* The taxonomies HR may have set up before the first job: none, or one
\* level named like the default with another progress.
StartTaxonomies ==
  {EmptyTax,
   [EmptyTax EXCEPT !.levels = {[id |-> 1, name |-> <<"b", "e", "g", "i", "n", "n", "e", "r">>,
                                 progress |-> 10]}]}

\* Transaction steps 2 and 3 of a job whose payload holds the list `items`,
\* with no other job running.
RunSkills(rid, items, createFails) ==
  /\ \E step \in {SkillsStep(tax, rid, SkillList(items), tax, createFails)} :
       /\ tax' = step.tax
       /\ lastRun' = [rid |-> rid, skills |-> SkillList(items),
                      err |-> step.status.reason]
  /\ UNCHANGED <<company, att, rec, wk, resp, lastParse>>

InitSkills ==
  /\ company = [mode |-> "manual_send", api_key |-> TRUE, model |-> TRUE]
  /\ att = <<"data", "data">>
  /\ rec = [r \in Records |-> InitRow]
  /\ tax \in StartTaxonomies
  /\ wk = [w \in Workers |-> NoWorker]
  /\ resp = ""
  /\ lastRun = NoRun
  /\ lastParse = NoParse

NextSkills ==
  \E rid \in Records : \E items \in SkillLists : \E createFails \in BOOLEAN :
    RunSkills(rid, items, createFails)

SpecSkills == InitSkills /\ [][NextSkills]_vars

(***************************************************************************)
(* The response parser on its own: a raw text is drawn, and                *)
(* _parse_gemini_response is called on it.                                 *)
(***************************************************************************)
MaxTokens == 5

\* What a raw text is made of: prose, the two fences, braces, an object
\* body, a JSON list.
Tokens == {"t", FenceOpen, FenceClose, "{", "}", "full", "[]"}

RawTexts == UNION {[1..n -> Tokens] : n \in 0..MaxTokens}

\* self._parse_gemini_response(response_text)
Parse ==
  /\ ~lastParse.called
  /\ lastParse' = [lastParse EXCEPT !.called = TRUE,
                                    !.out = ParseGeminiResponse(lastParse.text)]
  /\ UNCHANGED <<company, att, rec, tax, wk, resp, lastRun>>

InitParser ==
  /\ company = [mode |-> "manual_send", api_key |-> TRUE, model |-> TRUE]
  /\ att = <<"data", "data">>
  /\ rec = [r \in Records |-> InitRow]
  /\ tax = EmptyTax
  /\ wk = [w \in Workers |-> NoWorker]
  /\ resp = ""
  /\ lastRun = NoRun
  /\ \E t \in RawTexts : lastParse = [NoParse EXCEPT !.text = t]

NextParser == Parse

SpecParser == InitParser /\ [][NextParser]_vars

(***************************************************************************)
(* The field writer on its own: applicants as HR or the website created    *)
(* them, and _write_extracted_data called on one of them with a payload.   *)
(***************************************************************************)
sTest == <<"T">>

\* The applicants before any extraction: no name, a name HR typed, or a
\* name of the form "<somebody>'s Application" as the test fixture has it;
\* with or without a partner name.
UserRows ==
  {[InitRow EXCEPT !.name = n, !.partner_name = pn] :
     n \in {<<>>, <<"N">>, sTest \o AppSuffix}, pn \in {<<>>, sTest}}

\* The payloads the writer is called with.  A field that is absent from the
\* payload, null or the empty string is <<>>: data.get gives None or ''.
Payloads ==
  {NoPayload,
   [NoPayload EXCEPT !.name = <<"J">>, !.email = <<"j", "@">>],
   [NoPayload EXCEPT !.name = <<"K">>, !.degree = <<"d">>],
   [NoPayload EXCEPT !.phone = <<"5">>, !.linkedin = <<"l">>, !.degree = <<"D">>],
   [NoPayload EXCEPT !.email = NumVal]}

\* applicant._write_extracted_data(data) on the committed rows.
WriteData(r, data, createFails) ==
  /\ \E out \in {WriteExtractedData(rec[r], data, tax, tax, createFails)} :
       /\ rec' = [rec EXCEPT ![r] = out.row]
       /\ tax' = out.tax
  /\ UNCHANGED <<company, att, wk, resp, lastRun, lastParse>>

InitWriter ==
  /\ company = [mode |-> "manual_send", api_key |-> TRUE, model |-> TRUE]
  /\ att = <<"data", "data">>
  /\ rec \in [Records -> UserRows]
  /\ tax = EmptyTax
  /\ wk = [w \in Workers |-> NoWorker]
  /\ resp = ""
  /\ lastRun = NoRun
  /\ lastParse = NoParse

NextWriter ==
  \E r \in Records : \E data \in Payloads : \E createFails \in BOOLEAN :
    WriteData(r, data, createFails)

SpecWriter == InitWriter /\ [][NextWriter]_vars

(***************************************************************************)
(* The level resolution on its own: jobs run one after the other on        *)
(* taxonomies whose levels HR set up beforehand.                           *)
(***************************************************************************)
MaxEntries == 2

sBeginnerLow == <<"b", "e", "g", "i", "n", "n", "e", "r">>

\* The entries of a payload: a label that parses, and no label.
LevelEntries ==
  {Entry(<<"T">>, <<"p">>, sB2),
   Entry(<<"T">>, <<"q">>, <<>>)}

LevelLists ==
  UNION {[1..n -> LevelEntries] : n \in 0..MaxEntries}

\* The levels HR may have set up: none; B2 with another progress; a
\* Beginner in lower case with another progress; that one and, created
\* after it, Beginner with the default progress; levels of other names
\* with progress 0, 40 and 20.
LevelTaxonomies ==
  {EmptyTax,
   [EmptyTax EXCEPT !.levels = {[id |-> 1, name |-> <<"B", "2">>, progress |-> 50]}],
   [EmptyTax EXCEPT !.levels = {[id |-> 1, name |-> sBeginnerLow, progress |-> 10]}],
   [EmptyTax EXCEPT !.levels = {[id |-> 1, name |-> sBeginnerLow, progress |-> 10],
                                [id |-> 2, name |-> sBeginner,
                                 progress |-> DefaultProgress]}],
   [EmptyTax EXCEPT !.levels = {[id |-> 1, name |-> <<"X">>, progress |-> 0],
                                [id |-> 2, name |-> <<"Y">>, progress |-> 40],
                                [id |-> 3, name |-> <<"Z">>, progress |-> 20]}]}

InitLevels ==
  /\ company = [mode |-> "manual_send", api_key |-> TRUE, model |-> TRUE]
  /\ att = <<"data", "data">>
  /\ rec = [r \in Records |-> InitRow]
  /\ tax \in LevelTaxonomies
  /\ wk = [w \in Workers |-> NoWorker]
  /\ resp = ""
  /\ lastRun = NoRun
  /\ lastParse = NoParse

NextLevels ==
  \E rid \in Records : \E items \in LevelLists : \E createFails \in BOOLEAN :
    RunSkills(rid, items, createFails)

SpecLevels == InitLevels /\ [][NextLevels]_vars

(***************************************************************************)
(* Properties.                                                             *)
(***************************************************************************)

\* C2: every read of can_extract_with_gemini on a record gives True exactly
\* when the company mode is manual_send, the record has a main attachment
\* and its state is no_extract, error or done; it gives False for pending
\* and processing, for mode no_send and for a record with no attachment.
C2_Eligibility ==
  [][\A r \in Records :
       ReadCanExtract(r) =>
         /\ (resp' = "can_extract=True") <=>
              (/\ company.mode = "manual_send"
               /\ att[r] # "none"
               /\ rec[r].state \in {"no_extract", "error", "done"})
         /\ rec[r].state \in {"pending", "processing"} => resp' = "can_extract=False"
         /\ company.mode = "no_send" => resp' = "can_extract=False"
         /\ att[r] = "none" => resp' = "can_extract=False"]_vars

\* The field was read True on records that are done and have an attachment,
\* in manual mode.
C2_Witness ==
  /\ resp = "can_extract=True"
  /\ company.mode = "manual_send"
  /\ \A r \in Records : att[r] = "data" /\ rec[r].state = "done"

\* The scalar fields of a row.
Scalars(row) ==
  <<row.name, row.partner_name, row.email_from, row.partner_phone,
    row.linkedin_profile, row.type_id>>

\* C3: whenever a job writes the partial-success status (its core step
\* succeeded, its skills step failed), the record is committed done, the
\* status carries the reason of the skills failure, the scalar fields are
\* those the core step wrote from the payload, the degree the core step
\* created is committed and nothing of the skills step is.
C3_PartialFailure ==
  [][\A r \in Records :
       (rec'[r] # rec[r] /\ rec'[r].status.kind = "partial") =>
         /\ rec'[r].state = "done"
         /\ rec'[r].status.reason \in {AttributeError, "default_level_create"}
         /\ \E w \in Workers : \E t \in Responses : \E degreeFails \in BOOLEAN :
              /\ wk[w].pc = "calling" /\ Current(w) = r
              /\ ParseGeminiResponse(t).ok
              /\ Truthy(ParseGeminiResponse(t).data.skills.items)
              /\ Scalars(rec'[r]) =
                   Scalars(WriteExtractedData(rec[r], ParseGeminiResponse(t).data,
                                              wk[w].snap, tax, degreeFails).row)
              /\ tax' = Commit(tax, wk[w].snap,
                               WriteExtractedData(rec[r], ParseGeminiResponse(t).data,
                                                  wk[w].snap, tax, degreeFails).tax)]_vars

\* A record is done with the partial-success status and holds the name the
\* core step extracted, and no link.
C3_Witness ==
  \E r \in Records :
    /\ rec[r].state = "done"
    /\ rec[r].status.kind = "partial"
    /\ rec[r].partner_name = <<"K">>
    /\ rec[r].type_id # 0
    /\ tax.links = {}

\* C1: in every step, a record's extraction state becomes pending only from
\* no_extract, error or done, and a record in processing leaves it only for
\* done or error.
C1_Transitions ==
  [][\A r \in Records :
       /\ (View(r)' = "pending" /\ View(r) # "pending")
            => View(r) \in {"no_extract", "error", "done"}
       /\ (View(r) = "processing" /\ View(r)' # "processing")
            => View(r)' \in {"done", "error"}]_vars

\* The core step of the job of worker w fails in this step: at validation,
\* at the provider call, at parsing or at the field write.
CoreStepFails(w) ==
  \/ BeginJob(w) /\ ConfigError(company, att[Current(w)]) # ""
  \/ ProviderRaises(w)
  \/ /\ wk[w].pc = "calling"
     /\ \E t \in Responses : ProviderReturns(w, t)
     /\ rec'[Current(w)].state # "done"

\* C4: whenever the core step of a job fails, nothing the job wrote to the
\* record or the taxonomy is committed, and the committed state of the
\* record becomes error with a status that carries the failure message.
C4_CoreFailure ==
  [][\A w \in Workers :
       CoreStepFails(w) =>
         /\ tax' = tax
         /\ Scalars(rec'[Current(w)]) = Scalars(rec[Current(w)])
         /\ rec'[Current(w)].state = "error"
         /\ rec'[Current(w)].status.kind = "error"
         /\ rec'[Current(w)].status.reason \in
              {ConfigError(company, att[Current(w)]), "provider_error",
               "invalid response that could not be parsed", AttributeError,
               "write_error"} \ {""}]_vars

\* C5: at any time at most one job is in flight for a record, and a record
\* with a job queued or running is not eligible, so a submit rejects it.
C5_OneJobPerRecord ==
  \A r \in Records :
    /\ Cardinality({w \in Workers : InFlight(r, w)}) <= 1
    /\ (\E w \in Workers : InFlight(r, w))
         => ~CanExtract(company, att[r], rec[r].state)

\* C6, in its finite form: a record is pending or processing only while a
\* job for it is in flight.  A pending record with no job in flight stays
\* pending for ever: no worker holds it and submit does not take it.
C6_NoStrandedPending ==
  \A r \in Records :
    View(r) \in {"pending", "processing"} => \E w \in Workers : InFlight(r, w)

\* C7: a worker that fails to start, or crashes before its first record,
\* leaves every record of its batch in error with the thread-error status
\* and none pending, and the caller of submit is not given the failure.
C7_DispatchFailure ==
  [][/\ resp' # "RuntimeError"
     /\ \A ids \in Batches :
          (Submit(ids) /\ wk' = wk /\ rec' # rec) =>
            \A r \in Records : rec[r].state # "pending" => rec'[r].state # "pending"
     /\ \A w \in Workers :
          (ThreadStart(w) /\ wk'[w].pc = "finished") =>
            \A r \in Records :
              InBatch(r, w) => /\ rec'[r].state = "error"
                               /\ rec'[r].status.kind = "thread_error"]_vars

\* C8: from the launch of its worker until its job finishes, the committed
\* state of a submitted record is pending.
C8_PendingWhileInFlight ==
  \A r \in Records : \A w \in Workers :
    InFlight(r, w) => rec[r].state = "pending"

\* The distinct skill names of a list, case folded (the entries the loop
\* does not skip).
SkillNames(skills) ==
  {Lower(skills.items[i].skill) :
     i \in {j \in 1..Len(skills.items) :
              /\ skills.items[j].dict
              /\ Truthy(skills.items[j].skill)
              /\ IsStr(skills.items[j].skill)}}

\* The links of record rid to a skill named n, case folded.
LinksNamed(t, rid, n) ==
  {k \in t.links : k.applicant = rid /\ Lower(Row(t.skills, k.skill).name) = n}

NoDuplicateLink(t) ==
  \A k1, k2 \in t.links :
    (k1.applicant = k2.applicant /\ k1.skill = k2.skill) => k1 = k2

\* The step runs again, on the same record, the list the run before it
\* processed without error.
RepeatsLastRun ==
  /\ lastRun.rid # 0 /\ lastRun.err = "" /\ lastRun'.err = ""
  /\ lastRun'.rid = lastRun.rid /\ lastRun'.skills = lastRun.skills

\* C9: after every run of the skills step there is at most one link per
\* (record, skill) pair; a run that repeats the run before it creates no
\* link; and a run that ends without error leaves exactly one link of the
\* record per distinct case-insensitive skill name of its list.
C9_OneLinkPerSkill ==
  [][/\ NoDuplicateLink(tax')
     /\ RepeatsLastRun => tax'.links = tax.links
     /\ lastRun'.err = "" =>
          \A n \in SkillNames(lastRun'.skills) :
            Cardinality(LinksNamed(tax', lastRun'.rid, n)) = 1]_vars

\* C10: every link references a level that exists, and a run of the skills
\* step fails over a level only when the creation of the default level
\* raised: whatever the label of an entry (missing, not parseable, matching
\* no level) and whatever the taxonomy the run started from, each entry the
\* loop does not skip ends with a link of the record to a skill its name
\* matches, at an existing level.
C10_LevelNeverNull ==
  /\ \A k \in tax.links : k.level # 0 /\ k.level \in Ids(tax.levels)
  /\ lastRun.err \in {"", "default_level_create"}
  /\ (lastRun.rid # 0 /\ lastRun.err = "") =>
       \A i \in 1..Len(lastRun.skills.items) :
         \E k \in tax.links :
           /\ k.applicant = lastRun.rid
           /\ ILike(Row(tax.skills, k.skill).name, lastRun.skills.items[i].skill)
           /\ k.level \in Ids(tax.levels)

\* A run on a taxonomy with no level at all linked a skill whose entry has
\* no label at the level Beginner / 15 it created.
C10_Witness ==
  /\ lastRun.rid # 0 /\ lastRun.err = ""
  /\ \E i \in 1..Len(lastRun.skills.items) : ~Truthy(lastRun.skills.items[i].level)
  /\ \E k \in tax.links :
       /\ k.applicant = lastRun.rid
       /\ Row(tax.levels, k.level).name = sBeginner
       /\ Row(tax.levels, k.level).progress = DefaultProgress

\* The first fenced JSON block of a raw text: <<i, j>> are the places of its
\* opening and closing fence.
FencedBlocks(text) ==
  {p \in (1..Len(text)) \X (1..Len(text)) :
     /\ p[1] < p[2]
     /\ text[p[1]] = FenceOpen /\ text[p[2]] = FenceClose
     /\ \A i \in 1..(p[1] - 1) :
          text[i] = FenceOpen => \A j \in (i + 1)..Len(text) : text[j] # FenceClose
     /\ \A j \in (p[1] + 1)..(p[2] - 1) : text[j] # FenceClose}

\* The spans from the first "{" to the last "}" of a raw text.
BraceSpans(text) ==
  {p \in (1..Len(text)) \X (1..Len(text)) :
     /\ p[1] < p[2]
     /\ text[p[1]] = "{" /\ text[p[2]] = "}"
     /\ \A i \in 1..(p[1] - 1) : text[i] # "{"
     /\ \A j \in (p[2] + 1)..Len(text) : text[j] # "}"}

\* C11: for every raw response, when it holds a fenced JSON block the parser
\* gives exactly what decoding the interior of that block gives, a failure
\* when the interior does not decode even if a brace span would; otherwise,
\* when it holds a span from the first "{" to the last "}", exactly what
\* decoding that span gives; otherwise a failure.  A failure carries no
\* payload.
C11_ParserCandidates ==
  lastParse.called =>
    /\ \A p \in FencedBlocks(lastParse.text) :
         lastParse.out = JsonLoads(SubSeq(lastParse.text, p[1] + 1, p[2] - 1))
    /\ FencedBlocks(lastParse.text) = {} =>
         \A p \in BraceSpans(lastParse.text) :
           lastParse.out = JsonLoads(SubSeq(lastParse.text, p[1], p[2]))
    /\ (FencedBlocks(lastParse.text) = {} /\ BraceSpans(lastParse.text) = {}) =>
         ~lastParse.out.ok
    /\ ~lastParse.out.ok => lastParse.out.data = NoPayload

\* A text whose fenced interior does not decode while its brace span would:
\* the parser has failed.
C11_Witness ==
  /\ lastParse.called
  /\ ~lastParse.out.ok
  /\ \E p \in FencedBlocks(lastParse.text) : p[2] = p[1] + 1
  /\ \E p \in BraceSpans(lastParse.text) :
       JsonLoads(SubSeq(lastParse.text, p[1], p[2])).ok

\* C12: whenever the provider's answer cannot be parsed (no object in it, or
\* a candidate that does not decode), the job's record is committed error,
\* its status holds the whole raw answer, and none of its scalar fields
\* changes.
C12_ParseFailure ==
  [][\A w \in Workers : \A t \in Responses :
       (/\ wk[w].pc = "calling"
        /\ ~ParseGeminiResponse(t).ok
        /\ ProviderReturns(w, t)) =>
         /\ rec'[Current(w)].state = "error"
         /\ rec'[Current(w)].status.raw = t
         /\ Scalars(rec'[Current(w)]) = Scalars(rec[Current(w)])]_vars

\* The configuration of the job of record r has all its items: the API
\* key, the model name, and an attachment that is not empty.
ConfigComplete(r) == company.api_key /\ company.model /\ att[r] = "data"

\* C13: whenever a job begins on a record whose configuration lacks an item
\* (API key, model, attachment, or content of the attachment), the provider
\* is not called, and the record is committed error with a status that
\* names a missing item, the key when the key is missing.
C13_InvalidConfiguration ==
  [][\A w \in Workers :
       (/\ wk[w].pc = "ready"
        /\ wk[w].idx <= Len(wk[w].batch)
        /\ ~ConfigComplete(Current(w))
        /\ BeginJob(w)) =>
         /\ wk'[w].pc # "calling"
         /\ rec'[Current(w)].state = "error"
         /\ rec'[Current(w)].status.reason \in
              {"Gemini API Key is not set", "Gemini Model is not set",
               "No CV attached", "Attached CV is empty"}
         /\ ~company.api_key =>
              rec'[Current(w)].status.reason = "Gemini API Key is not set"]_vars

\* The records of the set ids that the eligibility predicate accepts.
Eligible(ids) ==
  {r \in Records : /\ \E i \in 1..Len(ids) : ids[i] = r
                   /\ CanExtract(company, att[r], rec[r].state)}

\* C14: a submit on a set of records none of which is eligible answers with
\* the no-eligible-records error, changes no record and launches no worker;
\* a submit on a set with eligible records leaves every other record as it
\* was, state and status, and hands the worker eligible records only.
C14_SubmitFrame ==
  [][\A ids \in Batches :
       Submit(ids) =>
         /\ Eligible(ids) = {} =>
              resp' = "UserError" /\ rec' = rec /\ wk' = wk
         /\ Eligible(ids) # {} =>
              /\ resp' # "UserError"
              /\ \A r \in Records \ Eligible(ids) : rec'[r] = rec[r]
              /\ \A w \in Workers :
                   wk'[w] # wk[w] =>
                     \A i \in 1..Len(wk'[w].batch) :
                       wk'[w].batch[i] \in Eligible(ids)]_vars

\* A worker was launched for record 2 alone while record 1, which has no
\* attachment and is not eligible, is as it was created.
C14_Witness ==
  /\ resp = "True"
  /\ att[1] = "none"
  /\ rec[1] = InitRow
  /\ rec[2].state = "pending"
  /\ \E w \in Workers : wk[w].pc = "launched" /\ wk[w].batch = <<2>>

\* C15, as claimed: when the payload has a name, the display name becomes
\* "<new name>'s Application" if it was empty or was the partner name the
\* record held followed by "'s Application", and is left as it was in every
\* other case.
C15_NamePolicyAsClaimed ==
  [][\A r \in Records : \A data \in Payloads : \A createFails \in BOOLEAN :
       (WriteData(r, data, createFails) /\ Truthy(data.name)) =>
         rec'[r].name =
           IF \/ rec[r].name = <<>>
              \/ /\ Truthy(rec[r].partner_name)
                 /\ rec[r].name = rec[r].partner_name \o AppSuffix
           THEN data.name \o AppSuffix
           ELSE rec[r].name]_vars

\* C15, amended: when the payload has a name, the display name becomes
\* "<new name>'s Application" if it was empty or ended with
\* "'s Application", whoever wrote it, and is left as it was in every other
\* case; a payload without a name leaves it as it was.
C15_NamePolicy ==
  [][\A r \in Records : \A data \in Payloads : \A createFails \in BOOLEAN :
       WriteData(r, data, createFails) =>
         rec'[r].name =
           IF /\ Truthy(data.name)
              /\ rec[r].name = <<>> \/ EndsWith(rec[r].name, AppSuffix)
           THEN data.name \o AppSuffix
           ELSE rec[r].name]_vars

\* An applicant renamed after the extracted name, next to one whose typed
\* name was kept while its partner name was extracted.
C15_Witness ==
  /\ rec[1].name = <<"J">> \o AppSuffix
  /\ rec[1].partner_name = <<"J">>
  /\ rec[2].name = <<"N">>
  /\ rec[2].partner_name = <<"K">>

\* C16: a call of the field writer changes the partner name, the email, the
\* phone, the linkedin profile or the degree of its record only when the
\* payload holds a non-empty value for that field, changes no other record,
\* and with a payload that holds no usable field it changes nothing at all.
C16_WriterFrame ==
  [][\A r \in Records : \A data \in Payloads : \A createFails \in BOOLEAN :
       WriteData(r, data, createFails) =>
         /\ rec'[r].partner_name # rec[r].partner_name => Truthy(data.name)
         /\ rec'[r].email_from # rec[r].email_from => Truthy(data.email)
         /\ rec'[r].partner_phone # rec[r].partner_phone => Truthy(data.phone)
         /\ rec'[r].linkedin_profile # rec[r].linkedin_profile => Truthy(data.linkedin)
         /\ rec'[r].type_id # rec[r].type_id => Truthy(data.degree)
         /\ \A o \in Records \ {r} : rec'[o] = rec[o]
         /\ ~HasWriteVals(data, 0) => rec' = rec /\ tax' = tax]_vars

\* A record that holds an email and a degree from one payload and a phone
\* from another, which had no email.
C16_Witness ==
  /\ rec[1].email_from = <<"j", "@">>
  /\ rec[1].partner_phone = <<"5">>
  /\ rec[1].type_id # 0
  /\ rec[1].partner_name = <<"J">>

\* C17: in every state reached by runs of the skills step, the level of
\* every record-skill link is one of the levels allowed for the skill type
\* the link's skill belongs to.
C17_LinkLevelAllowed ==
  \A k \in tax.links :
    <<Row(tax.skills, k.skill).type, k.level>> \in tax.assoc

\* No two rows of a table have names that are equal or differ only by case.
UniqueNames(rows) ==
  \A x \in rows : \A y \in rows : Lower(x.name) = Lower(y.name) => x = y

\* C18: in every reachable state the committed skill types, skill levels,
\* skills and degrees each have names that are unique without regard to
\* case, whatever jobs ran and however the workers of different records
\* interleaved.
C18_UniqueNames ==
  /\ UniqueNames(tax.types)
  /\ UniqueNames(tax.levels)
  /\ UniqueNames(tax.skills)
  /\ UniqueNames(tax.degrees)

\* C19: every change of a record's state other than a change to pending is
\* either pending to processing or processing to done or error; a pending
\* record does not become done or error without being processing first.
C19_ThroughProcessing ==
  [][\A r \in Records :
       (View(r)' # View(r) /\ View(r)' # "pending") =>
         \/ View(r) = "pending" /\ View(r)' = "processing"
         \/ View(r) = "processing" /\ View(r)' \in {"done", "error"}]_vars

\* C20: a worker calls the provider for a job only from the start of that
\* job and leaves the call only by ending the job, so each submitted record
\* gets at most one call; and the committed state of a record that is in
\* error changes only by a submit, which makes it pending.
C20_NoRetry ==
  [][/\ \A w \in Workers :
          /\ (wk'[w].pc = "calling" /\ wk[w].pc # "calling") =>
               /\ wk[w].pc = "ready"
               /\ wk'[w].idx = wk[w].idx
               /\ wk'[w].batch = wk[w].batch
          /\ (wk[w].pc = "calling" /\ wk'[w] # wk[w]) =>
               \/ wk'[w].pc = "finished"
               \/ /\ wk'[w].pc = "ready"
                  /\ wk'[w].idx = wk[w].idx + 1
                  /\ wk'[w].batch = wk[w].batch
     /\ \A r \in Records :
          (rec[r].state = "error" /\ rec'[r].state # "error") =>
            /\ rec'[r].state = "pending"
            /\ \E ids \in Batches : Submit(ids)]_vars

\* The levels of a table named n, case folded.
LevelsNamed(levels, n) == {l \in levels : Lower(l.name) = Lower(n)}

\* The name of the skill type an entry resolves to.
TypeName(entry) == IF Truthy(entry.type) THEN entry.type ELSE sGeneral

\* The links a run created for record rid to the skill an entry names.
NewLinks(rid, entry) ==
  {k \in tax'.links \ tax.links :
     /\ k.applicant = rid
     /\ Lower(Row(tax'.skills, k.skill).name) = Lower(entry.skill)}

C22_NameOnlyFallback ==
  [][(lastRun'.rid # 0 /\ lastRun'.err = "") =>
       \A i \in 1..Len(lastRun'.skills.items) :
         \A m \in {ParseLevelLabel(lastRun'.skills.items[i].level)} :
           (m.ok /\ LevelsNamed(tax.levels, m.name) # {}) =>
             /\ LevelsNamed(tax'.levels, m.name) = LevelsNamed(tax.levels, m.name)
             /\ \A k \in NewLinks(lastRun'.rid, lastRun'.skills.items[i]) :
                  k.level \in Ids(LevelsNamed(tax.levels, m.name))]_vars

\* C23: after a job whose skills step ended without error, the skill that
\* the last entry of its list names has the type that entry names, whether
\* the skill was created, found with another type, or already seen earlier
\* in the list under another type.
C23_TypeOfLatestEntry ==
  (lastRun.rid # 0 /\ lastRun.err = "" /\ lastRun.skills.items # <<>>) =>
    \A e \in {lastRun.skills.items[Len(lastRun.skills.items)]} :
      \E k \in tax.skills :
        /\ ILike(k.name, e.skill)
        /\ Lower(Row(tax.types, k.type).name) = Lower(TypeName(e))

\* The entry has no level label: its level is the default one.
DefaultNeeded(entry) == ~Truthy(entry.level)

\* The level table as it is when a job first needs the default level: the
\* table before the job when its first entry needs it, else that table and
\* the levels the labelled entries created.
LevelsWhenNeeded(items) ==
  IF DefaultNeeded(items[1]) THEN tax.levels
  ELSE {l \in tax'.levels :
          \/ l \in tax.levels
          \/ \E i \in 1..Len(items) :
               /\ ParseLevelLabel(items[i].level).ok
               /\ l.name = ParseLevelLabel(items[i].level).name}

\* d is what the cascade gives on the level table L: Beginner with the
\* default progress; else a Beginner; else a level of the lowest progress
\* above 0; else a new level Beginner with the default progress.
IsDefaultOf(d, L) ==
  IF \E l \in LevelsNamed(L, sBeginner) : l.progress = DefaultProgress
    THEN d \in LevelsNamed(L, sBeginner) /\ d.progress = DefaultProgress
  ELSE IF LevelsNamed(L, sBeginner) # {}
    THEN d \in LevelsNamed(L, sBeginner)
  ELSE IF \E l \in L : l.progress > 0
    THEN /\ d \in L /\ d.progress > 0
         /\ \A l \in L : l.progress > 0 => d.progress <= l.progress
  ELSE d \notin L /\ d.name = sBeginner /\ d.progress = DefaultProgress

C25_SkillsAllOrNothing ==
  [][\A r \in Records :
       (rec'[r] # rec[r] /\ rec'[r].status.kind = "partial") =>
         /\ rec'[r].status.reason # ""
         /\ tax'.types = tax.types
         /\ tax'.levels = tax.levels
         /\ tax'.assoc = tax.assoc
         /\ tax'.skills = tax.skills
         /\ tax'.links = tax.links]_vars

\* A job whose second skill entry raised, after the first had created a
\* type, a level, a skill and a link, is done with the error in its status
\* while the taxonomy holds no type, level, skill or link.
C25_Witness ==
  \E r \in Records :
    /\ rec[r].status.kind = "partial"
    /\ rec[r].status.reason = AttributeError
    /\ tax.types = {} /\ tax.levels = {} /\ tax.assoc = {}
    /\ tax.skills = {} /\ tax.links = {}

\* The value a field has after the writer took the payload's value v for it.
Written(old, v) == IF Truthy(v) THEN v ELSE old

\* C26: whenever the field writer is called with a payload whose degree is
\* not in the taxonomy and the creation of the degree fails, the call goes
\* through: no degree is added, the record's degree is as it was, and the
\* partner name, email, phone and linkedin profile take the payload's
\* values.
C26_DegreeFailureSwallowed ==
  [][\A r \in Records : \A data \in Payloads :
       (/\ Truthy(data.degree)
        /\ \A g \in tax.degrees : ~ILike(g.name, data.degree)
        /\ WriteData(r, data, TRUE)) =>
         /\ tax' = tax
         /\ rec'[r].type_id = rec[r].type_id
         /\ rec'[r].partner_name = Written(rec[r].partner_name, data.name)
         /\ rec'[r].email_from = Written(rec[r].email_from, data.email)
         /\ rec'[r].partner_phone = Written(rec[r].partner_phone, data.phone)
         /\ rec'[r].linkedin_profile =
              Written(rec[r].linkedin_profile, data.linkedin)]_vars

\* A record holds the name of the payload that also named degree d, while
\* it has no degree and the taxonomy holds none: the creation failed and
\* the name was written.
C26_Witness ==
  /\ rec[1].partner_name = <<"K">>
  /\ rec[1].type_id = 0
  /\ tax.degrees = {}

\* The loop of worker w is running: its thread has started and not ended.
Looping(w) == wk[w].pc \in {"ready", "calling"}

\* C27: within one batch's worker the records are processed one after
\* another in submission order, and when the loop moves on to the next
\* record the job of the record it leaves has reached Done or Error.
C27_OneJobAtATime ==
  [][\A w \in Workers :
       (Looping(w) /\ Looping(w)') =>
         /\ wk'[w].batch = wk[w].batch
         /\ wk'[w].idx \in {wk[w].idx, wk[w].idx + 1}
         /\ wk'[w].idx = wk[w].idx + 1 =>
              rec'[Current(w)].state \in {"done", "error"}]_vars

\* This step ends the job that worker w has at its position, and not with
\* the commit of 'done'.
JobFails(w) ==
  /\ Looping(w)
  /\ wk[w].idx <= Len(wk[w].batch)
  /\ wk'[w] # wk[w]
  /\ wk'[w].pc # "calling"
  /\ ~(wk[w].pc = "calling" /\ rec'[Current(w)].state = "done")

\* C28: when the job of a record fails, the records that come before it
\* in the batch keep their committed data and state, the committed taxonomy
\* is as it was, and the worker goes on to the next record of the batch.
C28_FailureIsolated ==
  [][\A w \in Workers :
       JobFails(w) =>
         /\ \A i \in 1..(wk[w].idx - 1) :
              rec'[wk[w].batch[i]] = rec[wk[w].batch[i]]
         /\ tax' = tax
         /\ wk'[w].pc = "ready"
         /\ wk'[w].batch = wk[w].batch
         /\ wk'[w].idx = wk[w].idx + 1]_vars

\* C29: while the provider call of a job is in progress, the worker's
\* cursor holds no uncommitted write on the record: the state it has for
\* the record is the committed one, and the row is not locked against the
\* other cursors.
C29_NoWriteDuringCall ==
  \A w \in Workers :
    wk[w].pc = "calling" =>
      /\ View(Current(w)) = rec[Current(w)].state
      /\ \A o \in Workers \ {w} : ~Locked(Current(w), o)

\* C30: no step deletes a skill type, a skill level, a skill, a degree or
\* a link, and none removes a level from the levels a type allows; a run
\* that repeats the run before it, whose levels the types then allow
\* already, leaves the allowed levels as they are.
C30_OnlyAdds ==
  [][/\ Ids(tax.types) \subseteq Ids(tax'.types)
     /\ Ids(tax.levels) \subseteq Ids(tax'.levels)
     /\ Ids(tax.skills) \subseteq Ids(tax'.skills)
     /\ Ids(tax.degrees) \subseteq Ids(tax'.degrees)
     /\ Ids(tax.links) \subseteq Ids(tax'.links)
     /\ tax.assoc \subseteq tax'.assoc
     /\ RepeatsLastRun => tax'.assoc = tax.assoc]_vars

\* A type allows two levels and has a skill linked to a record: a second
\* level was added to a type that allowed one.
C30_Witness ==
  \E ty \in tax.types :
    /\ Cardinality({p \in tax.assoc : p[1] = ty.id}) = 2
    /\ \E k \in tax.links : k.type = ty.id

C32_DoneIsFinal ==
  [][\A w \in Workers :
       (Looping(w) /\ wk'[w] # wk[w]) =>
         \A i \in 1..(wk[w].idx - 1) :
           rec[wk[w].batch[i]].state = "done" =>
             rec'[wk[w].batch[i]].state = "done"]_vars

\* C33: a run of the skills step leaves every link that exists as it is,
\* with its record, skill, level and type, whatever level or type the
\* entries of the run report for the skill.
C33_ExistingLinkKept ==
  [][\A k \in tax.links : k \in tax'.links]_vars

\* A run ended without error on an entry that names the skill of a link of
\* the record with another type than the link has: the link was there
\* before the entry was processed, and it kept its type.
C33_Witness ==
  /\ lastRun.rid # 0 /\ lastRun.err = ""
  /\ \E i \in 1..Len(lastRun.skills.items) : \E k \in tax.links :
       /\ k.applicant = lastRun.rid
       /\ Lower(Row(tax.skills, k.skill).name) = Lower(lastRun.skills.items[i].skill)
       /\ Lower(Row(tax.types, k.type).name) #
            Lower(TypeName(lastRun.skills.items[i]))

====
